---- MODULE Spec2Model ----
(***************************************************************************)
(* memorrhea: a Memory() scope (src/memory.ts) with its value store        *)
(* MEMORY, watcher registry WATCHERS, address index ADDRESSES and address  *)
(* generator ID, and the derived view built on it (src/unnamed/part_001).  *)
(* Pointers are modelled by their allocation number (their identity); the *)
(* address a pointer carries (pointer[0]) is kept in ptrAddr.             *)
(***************************************************************************)
EXTENDS Integers, Sequences, FiniteSets, TLC

\* ---------------------------------------------------------------- bounds
\* pointers a scope creates, explicit addresses 0..MaxAddr, watch calls, views,
\* explicit locks per pointer, and calls (with collector steps) per run
MaxPtrs == 4
MaxAddr == 2
MaxRegs == 2
MaxViews == 2
MaxLock == 2
MaxSteps == 4

\* ---------------------------------------------------------------- values
Num(n) == <<"number", n>>
Undefined == <<"undefined", 0>>
NaN == <<"NaN", 0>>
PtrVal(p) == <<"pointer", p>>
IsNum(v) == v[1] = "number"

\* the values the caller stores: two distinct numbers
UserValues == {Num(0), Num(1)}

\* callbacks, by identity
UserCb(i) == <<"user", i>>
ThrowCb == <<"throw", 0>>
WriterCb == <<"writer", 0>>
GcCb == <<"gc", 0>>
ViewCb(i) == <<"view", i>>
NoCb == <<"none", 0>>
\* the callbacks the caller registers: one that returns, one that throws, and
\* one that writes: () => { if (deref(h) !== 0) write(h, 0) }, for the pointer
\* h it is notified of
UserCbs == {UserCb(1), ThrowCb, WriterCb}

NoAddr == -1
NoPtr == NoAddr

VARIABLES
    scope,        \* the Memory() instance the caller is calling, named by its SCOPE_POINTER
    other,        \* the closure state of the second Memory() instance, if there is one
    addressMap,   \* options.addressMap !== false
    caller,       \* which part of the API the calling program uses
    nptr,         \* number of pointers created so far (identity supply)
    ptrAddr,      \* pointer -> pointer[0]
    MEMORY,       \* WeakMap pointer -> value
    WATCHERS,     \* WeakMap pointer -> Set of callbacks, in insertion order
    ADDRESSES,    \* Map address -> WeakRef(pointer)
    index,        \* the ID generator's index
    LOCKS,        \* lock table: pointer -> count (entries only while > 0)
    gcTimer,      \* garbageCollect's timer is pending
    held,         \* pointers the calling program holds a reference to
    collected,    \* pointers reclaimed by the runtime's garbage collector
    regs,         \* unregister closures returned by watch, in creation order, with the
                  \* time of the watch call (at) and of the closure's latest call (off)
    views,        \* views created, in creation order, with the time of the view call;
                  \* time is counted in watch and view calls made on the scope
    registered,   \* history: <<cb, pointer>> pairs a watch call added and no unregister call removed since
    written,      \* history: pointer -> the value last passed to allocate/write for it
    deallocated,  \* history: pointers deallocate was called on
    last,         \* the most recent call: its arguments, outcome and event log
    steps         \* calls and collector steps taken so far

vars == <<scope, other, addressMap, caller, nptr, ptrAddr, MEMORY, WATCHERS, ADDRESSES, index, LOCKS,
          gcTimer, held, collected, regs, views, registered, written,
          deallocated, last, steps>>

\* the scope's own pointer: const SCOPE_POINTER = allocate(0)
SCOPE_POINTER == scope

\* ------------------------------------------------------------- functions
Remove(f, k) == [x \in DOMAIN f \ {k} |-> f[x]]
Put(f, k, v) == [x \in DOMAIN f \cup {k} |-> IF x = k THEN v ELSE f[x]]
Has(f, k) == k \in DOMAIN f
Empty == [x \in {} |-> 0]

SetOfSeq(s) == {s[i] : i \in 1..Len(s)}

\* WeakRef.deref(): the pointer, or undefined once it was collected
WeakDeref(p, dead) == IF p \in dead THEN Undefined ELSE PtrVal(p)

\* lookup(address), addressMap enabled: ADDRESSES.get(address)?.deref()
LookupValue(addrs, dead, a) ==
    IF Has(addrs, a) THEN WeakDeref(addrs[a], dead) ELSE Undefined

\* deref(pointer)
Deref(mem, addrs, dead, amap, p) ==
    IF Has(mem, p) THEN mem[p]
    ELSE IF amap THEN LookupValue(addrs, dead, ptrAddr[p])
    ELSE Undefined

\* the ID generator: skip the addresses in use, yield index (never advanced
\* past the yielded value)
RECURSIVE SkipUsed(_, _)
SkipUsed(i, addrs) == IF Has(addrs, i) THEN SkipUsed(i + 1, addrs) ELSE i

NextId(i, addrs) == SkipUsed(i, addrs)

\* ------------------------------------------------------------ lock table
\* lock and unlock are imported from './memory' by the view module, and
\* src/memory.ts defines neither: the table follows the specification (a count
\* per pointer, lock adds one, unlock takes one and drops the entry at zero).
LockCount(locks, p) == IF Has(locks, p) THEN locks[p] ELSE 0

LockOne(locks, p) == Put(locks, p, LockCount(locks, p) + 1)

UnlockOne(locks, p) ==
    IF ~Has(locks, p) THEN locks
    ELSE IF locks[p] <= 1 THEN Remove(locks, p)
    ELSE Put(locks, p, locks[p] - 1)

RECURSIVE LockAll(_, _)
LockAll(locks, ps) ==
    IF ps = <<>> THEN locks ELSE LockAll(LockOne(locks, Head(ps)), Tail(ps))

RECURSIVE UnlockAll(_, _)
UnlockAll(locks, ps) ==
    IF ps = <<>> THEN locks ELSE UnlockAll(UnlockOne(locks, Head(ps)), Tail(ps))

\* -------------------------------------------------------------- reducers
RECURSIVE SumNums(_)
SumNums(args) == IF args = <<>> THEN 0 ELSE Head(args)[2] + SumNums(Tail(args))

Reducers == {"sum", "succ"}

\* the reducers handed to view: pure functions of the dereferenced sources
Reduce(red, args) ==
    IF \E i \in 1..Len(args) : ~IsNum(args[i]) THEN NaN
    ELSE IF red = "sum" THEN Num(SumNums(args) % Cardinality(UserValues))
    ELSE Num((SumNums(args) + 1) % Cardinality(UserValues))

\* -------------------------------------------------------- write dispatch
\* The part of the state a write and the callbacks it runs can change.
Event(k, p, cb, v) == [k |-> k, p |-> p, cb |-> cb, v |-> v]

Logged(st, e) == [st EXCEPT !.log = Append(@, e)]

\* a store that keeps the value a pointer already has
MemorySetOnce(mem, p, v) == IF Has(mem, p) THEN mem ELSE Put(mem, p, v)

\* MEMORY.set(pointer, val)
MemorySet(mem, p, v) == Put(mem, p, v)

\* a registry shared by all scopes: the callbacks of both scopes run
ObserversListAllScopes(p) ==
    (IF Has(WATCHERS, p) THEN WATCHERS[p] ELSE <<>>)
        \o (IF Has(other.WATCHERS, p) THEN other.WATCHERS[p] ELSE <<>>)

\* the callbacks notifyWatchers(pointer) runs, in the Set's iteration order
ObserversList(p) == IF Has(WATCHERS, p) THEN WATCHERS[p] ELSE <<>>

\* deps.map(deref) in the middle of a dispatch
DerefAll(st, deps) ==
    [i \in 1..Len(deps) |-> Deref(st.mem, ADDRESSES, collected, addressMap, deps[i])]

RECURSIVE Write(_, _, _)
RECURSIVE RunObservers(_, _, _)
RECURSIVE ViewWatcher(_, _)

\* a callback that sees the value the pointer held when the caller's call began
ObservedBefore(st, p) == Deref(MEMORY, ADDRESSES, collected, addressMap, p)

\* what deref(pointer) returns to a callback at the moment it is invoked
Observed(st, p) == Deref(st.mem, ADDRESSES, collected, addressMap, p)

\* one callback, invoked by the notification of p; the event records the value
\* it finds in the pointer
Invoke(st, cb, p) ==
    LET s1 == Logged(st, Event("call", p, cb, Observed(st, p))) IN
    IF cb[1] = "throw" THEN [s1 EXCEPT !.err = "Thrown"]
    ELSE IF cb[1] = "gc" THEN [s1 EXCEPT !.gc = TRUE]
    ELSE IF cb[1] = "view" THEN ViewWatcher(s1, views[cb[2]])
    ELSE IF cb[1] = "writer"
         THEN IF Deref(s1.mem, ADDRESSES, collected, addressMap, p) # Num(0)
              THEN Write(s1, p, Num(0))
              ELSE s1
    ELSE s1

\* observersList.forEach(cb => cb()): an error thrown by a callback ends it
RunObservers(st, cbs, p) ==
    IF cbs = <<>> \/ st.err # "none" THEN st
    ELSE RunObservers(Invoke(st, Head(cbs), p), Tail(cbs), p)

\* a notification that locks the pointer and unlocks it only when no callback
\* raised
NotifyWatchersLocking(st, p) ==
    LET s1 == [st EXCEPT !.locks = LockOne(@, p)]
        s2 == RunObservers(s1, ObserversList(p), p)
    IN IF s2.err # "none" THEN s2 ELSE [s2 EXCEPT !.locks = UnlockOne(@, p)]

\* notifyWatchers(pointer)
NotifyWatchers(st, p) == RunObservers(st, ObserversList(p), p)

\* write(pointer, val)
Write(st, p, v) ==
    LET s1 == Logged(st, Event("write", p, NoCb, v))
        s2 == [s1 EXCEPT !.mem = MemorySet(@, p, v)]
    IN NotifyWatchers(s2, p)

\* the callback view registers on its sources
ViewWatcher(st, vw) ==
    LET s1 == [st EXCEPT !.locks = LockAll(@, vw.deps)]
        nextVal == Reduce(vw.red, DerefAll(s1, vw.deps))
        s2 == [s1 EXCEPT !.locks = UnlockAll(@, vw.deps)]
        s3 == [s2 EXCEPT !.locks = UnlockOne(@, vw.out)]
        s4 == Write(s3, vw.out, nextVal)
    IN IF s4.err # "none" THEN s4
       ELSE [s4 EXCEPT !.locks = LockOne(@, vw.out)]

Dispatch0 == [mem |-> MEMORY, locks |-> LOCKS, gc |-> gcTimer, err |-> "none", log |-> <<>>]

\* ------------------------------------------------------- the last call
Call(op, p, a, err, ret, log, absent, locked, old) ==
    [op |-> op, p |-> p, a |-> a, err |-> err, ret |-> ret, log |-> log,
     absent |-> absent, locked |-> locked, old |-> old]

Quiet(op) == Call(op, NoPtr, NoAddr, "none", Undefined, <<>>, FALSE, FALSE, Undefined)

\* the values the write calls of a log passed, applied in order
RECURSIVE Record(_, _)
Record(w, log) ==
    IF log = <<>> THEN w
    ELSE Record(IF Head(log).k = "write" THEN Put(w, Head(log).p, Head(log).v) ELSE w,
                Tail(log))

CurrentValue(p) == Deref(MEMORY, ADDRESSES, collected, addressMap, p)

\* a pointer a returned value hands to the caller
Handed(v) == IF v[1] = "pointer" THEN {v[2]} ELSE {}

\* The calling programs explored. Every caller allocates, deallocates, derefs
\* and writes; a caller of kind "watch" also watches and unregisters, one of
\* kind "index" also allocates at explicit addresses, looks addresses up and
\* lets go of pointers, one of kind "view" also locks, unlocks, builds views
\* and watches.
Callers == {"watch", "index", "view"}

\* one more call or collector step, within the bound
Tick == steps < MaxSteps /\ steps' = steps + 1

\* ---------------------------------------------------------------- scopes
\* The state one Memory(options) call creates and its closures share: its own
\* MEMORY, WATCHERS, ADDRESSES, ID and gcTimer, SCOPE_POINTER = allocate(0) and,
\* with the address map, the garbageCollect watcher on it.
Memory(sp, amap) ==
    [scope |-> sp, addressMap |-> amap,
     MEMORY |-> (sp :> Num(0)),
     WATCHERS |-> IF amap THEN (sp :> <<GcCb>>) ELSE Empty,
     ADDRESSES |-> IF amap THEN (0 :> sp) ELSE Empty,
     index |-> 0, LOCKS |-> Empty, gcTimer |-> FALSE,
     regs |-> <<>>, views |-> <<>>, registered |-> {},
     written |-> (sp :> Num(0)), deallocated |-> {}]

\* the closure state of the scope being called
This ==
    [scope |-> scope, addressMap |-> addressMap, MEMORY |-> MEMORY, WATCHERS |-> WATCHERS,
     ADDRESSES |-> ADDRESSES, index |-> index, LOCKS |-> LOCKS, gcTimer |-> gcTimer,
     regs |-> regs, views |-> views, registered |-> registered, written |-> written,
     deallocated |-> deallocated]

\* the program has created one scope only
NoScope ==
    [scope |-> NoPtr, addressMap |-> FALSE, MEMORY |-> Empty, WATCHERS |-> Empty,
     ADDRESSES |-> Empty, index |-> 0, LOCKS |-> Empty, gcTimer |-> FALSE,
     regs |-> <<>>, views |-> <<>>, registered |-> {}, written |-> Empty,
     deallocated |-> {}]

\* ------------------------------------------------------------------ init
\* Memory(options): SCOPE_POINTER = allocate(0), and with the address map the
\* garbageCollect watcher on it
Init ==
    /\ scope = 0
    /\ other = NoScope
    /\ addressMap \in BOOLEAN
    /\ caller \in Callers
    /\ nptr = 1
    /\ ptrAddr = (SCOPE_POINTER :> 0)
    /\ MEMORY = (SCOPE_POINTER :> Num(0))
    /\ WATCHERS = IF addressMap THEN (SCOPE_POINTER :> <<GcCb>>) ELSE Empty
    /\ ADDRESSES = IF addressMap THEN (0 :> SCOPE_POINTER) ELSE Empty
    /\ index = 0
    /\ LOCKS = Empty
    /\ gcTimer = FALSE
    /\ held = {}
    /\ collected = {}
    /\ regs = <<>>
    /\ views = <<>>
    /\ registered = {}
    /\ written = (SCOPE_POINTER :> Num(0))
    /\ deallocated = {}
    /\ last = Quiet("Memory")
    /\ steps = 0

\* -------------------------------------------------------------- allocate
\* address || ID.next().value
UsesId(address) == address = NoAddr \/ address = 0

NextAddress(address) == IF UsesId(address) THEN NextId(index, ADDRESSES) ELSE address

\* address !== undefined && ADDRESSES.has(address)
AddressInUse(address) == address # NoAddr /\ Has(ADDRESSES, address)

\* ADDRESSES.set(pointer[0], new WeakRef(pointer)), with the address map
AddressesSet(addrs, a, p) == IF addressMap THEN Put(addrs, a, p) ELSE addrs

Allocate(value, address) ==
    /\ Tick
    /\ address = NoAddr \/ caller = "index"
    /\ nptr < MaxPtrs
    /\ IF AddressInUse(address)
       THEN /\ last' = Call("allocate", NoPtr, address, "AddressInUse", Undefined,
                            <<>>, FALSE, FALSE, Undefined)
            /\ UNCHANGED <<nptr, ptrAddr, MEMORY, ADDRESSES, index, held, written>>
       ELSE LET a == NextAddress(address)
                p == nptr
            IN /\ nptr' = nptr + 1
               /\ ptrAddr' = Put(ptrAddr, p, a)
               /\ MEMORY' = MemorySet(MEMORY, p, value)
               /\ ADDRESSES' = AddressesSet(ADDRESSES, a, p)
               /\ index' = IF UsesId(address) THEN a ELSE index
               /\ held' = held \cup {p}
               /\ written' = Put(written, p, value)
               /\ last' = Call("allocate", p, address, "none", PtrVal(p), <<>>,
                               FALSE, FALSE, Undefined)
    /\ UNCHANGED <<scope, other, addressMap, caller, WATCHERS, LOCKS, gcTimer, collected, regs, views,
                   registered, deallocated>>

\* ------------------------------------------------------------ deallocate
\* ADDRESSES.delete(pointer[0]), with the address map
AddressesDelete(addrs, p) == IF addressMap THEN Remove(addrs, ptrAddr[p]) ELSE addrs

Deallocate(p) ==
    /\ Tick
    /\ p \in held
    /\ MEMORY' = Remove(MEMORY, p)
    /\ ADDRESSES' = AddressesDelete(ADDRESSES, p)
    /\ deallocated' = deallocated \cup {p}
    /\ last' = Call("deallocate", p, NoAddr, "none", Undefined, <<>>,
                    ~Has(MEMORY, p), LockCount(LOCKS, p) > 0, CurrentValue(p))
    /\ UNCHANGED <<scope, other, addressMap, caller, nptr, ptrAddr, WATCHERS, index, LOCKS, gcTimer, held,
                   collected, regs, views, registered, written>>

\* ----------------------------------------------------------------- deref
\* a lookup that answers without the address map
LookupNeverThrows == FALSE

\* options?.addressMap === false: lookup throws
LookupThrows == ~addressMap

\* deref calls lookup(pointer[0]) for a pointer MEMORY does not have, when
\* options?.addressMap !== false
DerefError(p) ==
    IF ~Has(MEMORY, p) /\ addressMap /\ LookupThrows THEN "IndexDisabled" ELSE "none"

DerefCall(p) ==
    /\ Tick
    /\ p \in held
    /\ last' = Call("deref", p, NoAddr, DerefError(p), CurrentValue(p), <<>>,
                    ~Has(MEMORY, p), LockCount(LOCKS, p) > 0, CurrentValue(p))
    /\ held' = held \cup Handed(CurrentValue(p))
    /\ UNCHANGED <<scope, other, addressMap, caller, nptr, ptrAddr, MEMORY, WATCHERS, ADDRESSES, index,
                   LOCKS, gcTimer, collected, regs, views, registered, written,
                   deallocated>>

\* ----------------------------------------------------------------- write
WriteCall(p, v) ==
    /\ Tick
    /\ p \in held
    /\ LET st == Write(Dispatch0, p, v) IN
         /\ MEMORY' = st.mem
         /\ LOCKS' = st.locks
         /\ gcTimer' = st.gc
         /\ written' = Record(written, st.log)
         /\ last' = Call("write", p, NoAddr, st.err, Undefined, st.log,
                         ~Has(MEMORY, p), LockCount(LOCKS, p) > 0, CurrentValue(p))
    /\ UNCHANGED <<scope, other, addressMap, caller, nptr, ptrAddr, WATCHERS, ADDRESSES, index, held,
                   collected, regs, views, registered, deallocated>>

\* ----------------------------------------------------------------- watch
\* the watch and view calls made on the scope so far
RegistrationCount == Len(regs) + Len(views)

\* a watcher set that adds a callback it already has
AddObserverAgain(list, cb) == Append(list, cb)

\* if (!WATCHERS.has(pointer)) WATCHERS.set(pointer, new Set());
\* if (!observersList.has(cb)) observersList.add(cb)
AddObserver(list, cb) == IF cb \in SetOfSeq(list) THEN list ELSE Append(list, cb)

\* observersList.delete(cb)
DeleteObserver(list, cb) == SelectSeq(list, LAMBDA c : c # cb)

\* a watch that puts the callback at the front of each set
WatchAllFront(w, cb, ps) ==
    [x \in DOMAIN w \cup ps |->
        IF x \in ps
        THEN IF Has(w, x) /\ cb \in SetOfSeq(w[x]) THEN w[x]
             ELSE <<cb>> \o (IF Has(w, x) THEN w[x] ELSE <<>>)
        ELSE w[x]]

\* pointers.forEach(...) of watch
WatchAll(w, cb, ps) ==
    [x \in DOMAIN w \cup ps |->
        IF x \in ps THEN AddObserver(IF Has(w, x) THEN w[x] ELSE <<>>, cb) ELSE w[x]]

\* pointers.forEach(...) of the closure watch returns
UnwatchAll(w, cb, ps) ==
    [x \in DOMAIN w |-> IF x \in ps THEN DeleteObserver(w[x], cb) ELSE w[x]]

\* pointers.length === 0 ? [SCOPE_POINTER] : pointers
WatchedPointers(ps) == IF ps = {} THEN {SCOPE_POINTER} ELSE ps

Watch(cb, ps) ==
    /\ Tick
    /\ caller \in {"watch", "view"}
    /\ Len(regs) < MaxRegs
    /\ ps \subseteq held
    /\ WATCHERS' = WatchAll(WATCHERS, cb, WatchedPointers(ps))
    /\ regs' = Append(regs, [cb |-> cb, ptrs |-> WatchedPointers(ps),
                             global |-> ps = {}, active |-> TRUE,
                             at |-> RegistrationCount + 1, off |-> 0])
    /\ registered' = registered \cup {<<cb, p>> : p \in WatchedPointers(ps)}
    /\ last' = Quiet("watch")
    /\ UNCHANGED <<scope, other, addressMap, caller, nptr, ptrAddr, MEMORY, ADDRESSES, index, LOCKS,
                   gcTimer, held, collected, views, written, deallocated>>

\* the closure returned by watch
Unregister(i) ==
    /\ Tick
    /\ caller = "watch"
    /\ i \in 1..Len(regs)
    /\ WATCHERS' = UnwatchAll(WATCHERS, regs[i].cb, regs[i].ptrs)
    /\ regs' = [regs EXCEPT ![i].active = FALSE, ![i].off = RegistrationCount]
    /\ registered' = registered \ {<<regs[i].cb, p>> : p \in regs[i].ptrs}
    /\ last' = Quiet("unregister")
    /\ UNCHANGED <<scope, other, addressMap, caller, nptr, ptrAddr, MEMORY, ADDRESSES, index, LOCKS,
                   gcTimer, held, collected, views, written, deallocated>>

\* ---------------------------------------------------------------- lookup
Lookup(a) ==
    /\ Tick
    /\ caller = "index"
    /\ IF LookupThrows
       THEN /\ last' = Call("lookup", NoPtr, a, "IndexDisabled", Undefined, <<>>,
                            FALSE, FALSE, Undefined)
            /\ UNCHANGED held
       ELSE LET r == LookupValue(ADDRESSES, collected, a) IN
            /\ last' = Call("lookup", NoPtr, a, "none", r, <<>>, FALSE, FALSE, Undefined)
            /\ held' = held \cup Handed(r)
    /\ UNCHANGED <<scope, other, addressMap, caller, nptr, ptrAddr, MEMORY, WATCHERS, ADDRESSES, index,
                   LOCKS, gcTimer, collected, regs, views, registered, written,
                   deallocated>>

\* ----------------------------------------------------------- lock, unlock
Lock(p) ==
    /\ Tick
    /\ caller = "view"
    /\ p \in held
    /\ LockCount(LOCKS, p) < MaxLock
    /\ LOCKS' = LockAll(LOCKS, <<p>>)
    /\ last' = Quiet("lock")
    /\ UNCHANGED <<scope, other, addressMap, caller, nptr, ptrAddr, MEMORY, WATCHERS, ADDRESSES, index,
                   gcTimer, held, collected, regs, views, registered, written,
                   deallocated>>

Unlock(p) ==
    /\ Tick
    /\ caller = "view"
    /\ p \in held
    /\ LOCKS' = UnlockAll(LOCKS, <<p>>)
    /\ last' = Quiet("unlock")
    /\ UNCHANGED <<scope, other, addressMap, caller, nptr, ptrAddr, MEMORY, WATCHERS, ADDRESSES, index,
                   gcTimer, held, collected, regs, views, registered, written,
                   deallocated>>

\* ------------------------------------------------------------------ view
\* the source lists view is called with: one or two distinct held pointers
SourceLists == {<<a>> : a \in held} \cup {<<a, b>> : <<a, b>> \in {x \in held \X held : x[1] # x[2]}}

\* the pointers view registers its callback on
ViewWatched(deps) == WatchedPointers(SetOfSeq(deps))

\* view is built on the default scope, GLOBAL_SCOPE = Memory(), whose address
\* map is enabled
View(red, deps) ==
    /\ Tick
    /\ caller = "view"
    /\ addressMap
    /\ Len(views) < MaxViews
    /\ nptr < MaxPtrs
    /\ LET init == Reduce(red, DerefAll(Dispatch0, deps))
           a == NextId(index, ADDRESSES)
           p == nptr
       IN /\ nptr' = nptr + 1
          /\ ptrAddr' = Put(ptrAddr, p, a)
          /\ MEMORY' = MemorySet(MEMORY, p, init)
          /\ ADDRESSES' = AddressesSet(ADDRESSES, a, p)
          /\ index' = a
          /\ held' = held \cup {p}
          /\ written' = Put(written, p, init)
          /\ LOCKS' = LockAll(LOCKS, <<p>>)
          /\ WATCHERS' = WatchAll(WATCHERS, ViewCb(Len(views) + 1), ViewWatched(deps))
          /\ views' = Append(views, [out |-> p, deps |-> deps, red |-> red,
                                   at |-> RegistrationCount + 1])
          /\ last' = Call("view", p, NoAddr, "none", PtrVal(p), <<>>, FALSE, FALSE, Undefined)
    /\ UNCHANGED <<scope, other, addressMap, caller, gcTimer, collected, regs, registered, deallocated>>

\* ---------------------------------------------------- garbage collection
\* pointers some closure of the scope or of the caller still refers to
PinnedBy(sc) ==
    ({sc.scope} \ {NoPtr})
    \cup UNION {sc.regs[i].ptrs : i \in 1..Len(sc.regs)}
    \cup UNION {SetOfSeq(sc.views[i].deps) \cup {sc.views[i].out} : i \in 1..Len(sc.views)}

Pinned == PinnedBy(This) \cup PinnedBy(other)

\* a scope's WeakMaps without the entries of a reclaimed pointer
Purged(sc, p) ==
    [sc EXCEPT !.MEMORY = Remove(@, p), !.WATCHERS = Remove(@, p), !.LOCKS = Remove(@, p)]

\* the caller lets go of its reference to p
Drop(p) ==
    /\ Tick
    /\ caller = "index"
    /\ p \in held \ Pinned
    /\ held' = held \ {p}
    /\ last' = Quiet("drop")
    /\ UNCHANGED <<scope, other, addressMap, caller, nptr, ptrAddr, MEMORY, WATCHERS, ADDRESSES, index,
                   LOCKS, gcTimer, collected, regs, views, registered, written,
                   deallocated>>

\* the runtime reclaims an unreachable pointer: its WeakMap entries go with it
\* and every WeakRef to it is dead
Collect(p) ==
    /\ Tick
    /\ p \in (0..(nptr - 1)) \ (held \cup Pinned \cup collected)
    /\ collected' = collected \cup {p}
    /\ MEMORY' = Remove(MEMORY, p)
    /\ WATCHERS' = Remove(WATCHERS, p)
    /\ LOCKS' = Remove(LOCKS, p)
    /\ other' = Purged(other, p)
    /\ last' = Quiet("collect")
    /\ UNCHANGED <<scope, addressMap, caller, nptr, ptrAddr, ADDRESSES, index, gcTimer, held, regs,
                   views, registered, written, deallocated>>

\* the entries garbageCollect's timer callback keeps: weakRef.deref() !== undefined
Swept(addrs, dead) ==
    [a \in {x \in DOMAIN addrs : addrs[x] \notin dead} |-> addrs[a]]

\* garbageCollect's timer fires
Sweep ==
    /\ Tick
    /\ gcTimer
    /\ ADDRESSES' = Swept(ADDRESSES, collected)
    /\ gcTimer' = FALSE
    /\ last' = Quiet("sweep")
    /\ UNCHANGED <<scope, other, addressMap, caller, nptr, ptrAddr, MEMORY, WATCHERS, index, LOCKS, held,
                   collected, regs, views, registered, written, deallocated>>

\* ------------------------------------------------------------------ next
Addresses == 0..MaxAddr

Next ==
    \/ \E v \in UserValues, a \in Addresses \cup {NoAddr} : Allocate(v, a)
    \/ \E p \in held : Deallocate(p)
    \/ \E p \in held : DerefCall(p)
    \/ \E p \in held, v \in UserValues : WriteCall(p, v)
    \/ \E cb \in UserCbs, ps \in SUBSET held : Watch(cb, ps)
    \/ \E i \in 1..Len(regs) : Unregister(i)
    \/ \E a \in Addresses : Lookup(a)
    \/ \E p \in held : Lock(p)
    \/ \E p \in held : Unlock(p)
    \/ \E red \in Reducers, deps \in SourceLists : View(red, deps)
    \/ \E p \in held : Drop(p)
    \/ \E p \in 0..(nptr - 1) : Collect(p)
    \/ Sweep

Spec == Init /\ [][Next]_vars

\* ------------------------------------------------------------ two scopes
\* the caller turns to its other Memory() instance
Switch ==
    /\ Tick
    /\ other.scope # NoPtr
    /\ scope' = other.scope
    /\ addressMap' = other.addressMap
    /\ MEMORY' = other.MEMORY
    /\ WATCHERS' = other.WATCHERS
    /\ ADDRESSES' = other.ADDRESSES
    /\ index' = other.index
    /\ LOCKS' = other.LOCKS
    /\ gcTimer' = other.gcTimer
    /\ regs' = other.regs
    /\ views' = other.views
    /\ registered' = other.registered
    /\ written' = other.written
    /\ deallocated' = other.deallocated
    /\ other' = This
    /\ last' = Quiet("switch")
    /\ UNCHANGED <<caller, nptr, ptrAddr, held, collected>>

\* a program that has called Memory(options) twice and calls both scopes
ScopesInit ==
    /\ scope = 0
    /\ addressMap \in BOOLEAN
    /\ \E amap \in BOOLEAN : other = Memory(1, amap)
    /\ caller \in {"watch", "index"}
    /\ nptr = 2
    /\ ptrAddr = (0 :> 0 @@ 1 :> 0)
    /\ MEMORY = Memory(scope, addressMap).MEMORY
    /\ WATCHERS = Memory(scope, addressMap).WATCHERS
    /\ ADDRESSES = Memory(scope, addressMap).ADDRESSES
    /\ index = 0
    /\ LOCKS = Empty
    /\ gcTimer = FALSE
    /\ held = {}
    /\ collected = {}
    /\ regs = <<>>
    /\ views = <<>>
    /\ registered = {}
    /\ written = Memory(scope, addressMap).written
    /\ deallocated = {}
    /\ last = Quiet("Memory")
    /\ steps = 0

ScopesNext ==
    \/ \E v \in UserValues, a \in Addresses \cup {NoAddr} : Allocate(v, a)
    \/ \E p \in held : Deallocate(p)
    \/ \E p \in held : DerefCall(p)
    \/ \E p \in held, v \in UserValues : WriteCall(p, v)
    \/ \E cb \in UserCbs, ps \in SUBSET held : Watch(cb, ps)
    \/ \E i \in 1..Len(regs) : Unregister(i)
    \/ \E a \in Addresses : Lookup(a)
    \/ \E p \in held : Drop(p)
    \/ \E p \in 0..(nptr - 1) : Collect(p)
    \/ Sweep
    \/ Switch

ScopesSpec == ScopesInit /\ [][ScopesNext]_vars

\* ================================================================ claims
Writes(log, h) == Cardinality({i \in 1..Len(log) : log[i].k = "write" /\ log[i].p = h})
AllWrites(log) == Cardinality({i \in 1..Len(log) : log[i].k = "write"})
Calls(log, cb, h) ==
    Cardinality({i \in 1..Len(log) : log[i].k = "call" /\ log[i].cb = cb /\ log[i].p = h})
AllCalls(log) == Cardinality({i \in 1..Len(log) : log[i].k = "call"})
Pointers == 0..(nptr - 1)

\* C1: for every pointer present in the value store, deref returns the value
\* most recently passed for it to allocate or write.
C1_DerefIsLastStored ==
    \A p \in DOMAIN MEMORY : CurrentValue(p) = written[p]

\* C1 witness: a write has replaced the value a present pointer held.
C1_Witness ==
    /\ last.op = "write"
    /\ ~last.absent
    /\ Has(MEMORY, last.p)
    /\ CurrentValue(last.p) # last.old

C3_GlobalWatcherFires ==
    (last.op = "write" /\ last.err = "none") =>
        \A i \in 1..Len(regs) :
            (regs[i].global /\ regs[i].active) =>
                Calls(last.log, regs[i].cb, SCOPE_POINTER) = AllWrites(last.log)

\* C4: deref of a pointer absent from the value store fails with UnknownHandle.
C4_DerefUnknownFails ==
    (last.op = "deref" /\ last.absent) => last.err = "UnknownHandle"

\* C5: write to a pointer absent from the value store fails with UnknownHandle,
\* leaves it absent and calls no watcher.
C5_WriteUnknownFails ==
    (last.op = "write" /\ last.absent) =>
        /\ last.err = "UnknownHandle"
        /\ ~Has(MEMORY, last.p)
        /\ AllCalls(last.log) = 0

\* C6: write to a pointer whose lock count is > 0 fails with WriteLocked,
\* leaves the stored value unchanged and calls no watcher.
C6_WriteLockedFails ==
    (last.op = "write" /\ last.locked) =>
        /\ last.err = "WriteLocked"
        /\ CurrentValue(last.p) = last.old
        /\ AllCalls(last.log) = 0

\* the output of view i holds the reducer's value of its sources' current values
ViewConsistent(i) ==
    CurrentValue(views[i].out) =
        Reduce(views[i].red,
               [j \in 1..Len(views[i].deps) |-> CurrentValue(views[i].deps[j])])

\* the views with a source among the pointers the last call wrote to
Touched(i) ==
    \E j \in 1..Len(last.log) :
        last.log[j].k = "write" /\ last.log[j].p \in SetOfSeq(views[i].deps)

\* C7: when view returns, and after every write that returns without error,
\* the output of every view with a source written by that call (directly or
\* through another view's output) equals the reducer applied to the current
\* values of its sources.
C7_ViewFollowsSources ==
    /\ last.op = "view" => ViewConsistent(Len(views))
    /\ (last.op = "write" /\ last.err = "none") =>
           \A i \in 1..Len(views) : Touched(i) => ViewConsistent(i)

\* C8: a write never leaves the output of a view unlocked: an output locked
\* before a write call is locked after it, also when a watcher raised.
C8_OutputStaysLocked ==
    [][last'.op = "write" =>
          \A i \in 1..Len(views) :
              LockCount(LOCKS, views[i].out) > 0 => LockCount(LOCKS', views[i].out) > 0]_vars

\* C9: with the address map, lookup of the address of a pointer that was
\* allocated, is held and was never deallocated returns that pointer.
C9_LookupFindsLive ==
    addressMap =>
        \A p \in held \ deallocated :
            LookupValue(ADDRESSES, collected, ptrAddr[p]) = PtrVal(p)

\* C10: without the address map every lookup fails with IndexDisabled, and no
\* other call does.
C10_LookupDisabled ==
    ~addressMap =>
        /\ last.op = "lookup" => last.err = "IndexDisabled"
        /\ last.op # "lookup" => last.err # "IndexDisabled"

\* C10 witness: a lookup in a scope without the address map, after an allocate.
C10_Witness ==
    /\ ~addressMap
    /\ nptr > 1
    /\ last.op = "lookup"
    /\ last.err = "IndexDisabled"

\* the address index has an entry for address a whose pointer is reachable and
\* was not deallocated
LiveEntry(a) ==
    /\ Has(ADDRESSES, a)
    /\ ADDRESSES[a] \notin collected
    /\ ADDRESSES[a] \notin deallocated

\* C11: allocate with an explicit address fails with AddressInUse exactly when
\* the address has a live entry in the address index; a failed allocate leaves
\* the value store and the address index unchanged, and after a successful one
\* lookup(address) returns the new pointer.
C11_AddressInUseIffLive ==
    [][(last'.op = "allocate" /\ last'.a # NoAddr) =>
          /\ last'.err = "AddressInUse" <=> LiveEntry(last'.a)
          /\ last'.err = "AddressInUse" => (MEMORY' = MEMORY /\ ADDRESSES' = ADDRESSES)
          /\ (last'.err = "none" /\ addressMap) =>
                 LookupValue(ADDRESSES', collected', last'.a) = PtrVal(last'.p)]_vars

\* C12: the unregister function of a watch call is idempotent: its first call
\* removes cb from every pointer that watch call registered it on, and every
\* further call leaves all watcher sets unchanged, also when another watch
\* call has registered cb on the same pointer in between.
C12_UnregisterIdempotent ==
    [][\A i \in 1..Len(regs) :
          Unregister(i) =>
              /\ regs[i].active =>
                     \A h \in regs[i].ptrs :
                         Has(WATCHERS', h) => regs[i].cb \notin SetOfSeq(WATCHERS'[h])
              /\ ~regs[i].active => WATCHERS' = WATCHERS]_vars

\* C13: deallocate never fails and leaves every watcher set unchanged, and a
\* deallocate of a pointer absent from the value store changes nothing: not
\* the value store, not the address index, not the lock table.
C13_DeallocateIdempotent ==
    [][last'.op = "deallocate" =>
          /\ last'.err = "none"
          /\ WATCHERS' = WATCHERS
          /\ last'.absent =>
                 (MEMORY' = MEMORY /\ ADDRESSES' = ADDRESSES /\ LOCKS' = LOCKS)]_vars

\* the calls of the API of a scope
ScopeCalls == {"allocate", "deallocate", "deref", "write", "watch", "unregister", "lookup"}

\* C14: two scopes are independent: a call on one scope leaves the value
\* store, watcher sets, address index, address counter (and every other part of
\* the closure state) of the other scope unchanged, and every callback it
\* invokes is invoked for a pointer in whose watcher set, in the called scope,
\* the callback is.
C14_ScopesIndependent ==
    [][last'.op \in ScopeCalls =>
          /\ other' = other
          /\ \A i \in 1..Len(last'.log) :
                 last'.log[i].k = "call" =>
                     /\ Has(WATCHERS, last'.log[i].p)
                     /\ last'.log[i].cb \in SetOfSeq(WATCHERS[last'.log[i].p])]_vars

\* C14 witness: one scope has written a pointer that the other scope allocated
\* and has a watcher on; the other scope keeps its own value for it and its
\* watcher was not invoked.
C14_Witness ==
    /\ last.op = "write"
    /\ other.scope # NoPtr
    /\ Has(other.WATCHERS, last.p)
    /\ other.WATCHERS[last.p] # <<>>
    /\ Has(other.MEMORY, last.p)
    /\ other.MEMORY[last.p] # MEMORY[last.p]
    /\ AllCalls(last.log) = 0

\* C15: a write(h, _) made by a watcher of h while h's notification is running
\* is rejected: within one write call h is stored once, by the caller's write
\* and with the caller's value, and h's watchers are dispatched once.
C15_InnerWriteRejected ==
    last.op = "write" =>
        /\ Writes(last.log, last.p) = 1
        /\ CurrentValue(last.p) = last.log[1].v
        /\ Calls(last.log, WriterCb, last.p) <= 1

\* C16: with the address map, every write to any pointer of the scope that
\* returns without error has notified the scope pointer and so armed the
\* timer of the sweep: the timer is pending when the write returns.
C16_WriteArmsSweep ==
    (addressMap /\ last.op = "write" /\ last.err = "none") => gcTimer

\* ---- the order of registration, from the times of the watch, unregister and
\* ---- view calls
\* the latest time an unregister function removed cb from h (0: never)
Removed(cb, h) ==
    LET offs == {0} \cup {regs[j].off : j \in {k \in 1..Len(regs) :
                                                regs[k].cb = cb /\ h \in regs[k].ptrs}}
    IN CHOOSE m \in offs : \A x \in offs : x <= m

\* the time of the watch call that put cb into h's watcher set (0: cb is not in it)
Since(cb, h) ==
    LET ats == {regs[j].at : j \in {k \in 1..Len(regs) :
                                       /\ regs[k].cb = cb
                                       /\ h \in regs[k].ptrs
                                       /\ regs[k].at > Removed(cb, h)}}
    IN IF ats = {} THEN 0 ELSE CHOOSE m \in ats : \A x \in ats : m <= x

\* the callbacks registered on h, each with the time of its registration: the
\* garbageCollect watcher (at construction), the views' and the caller's
Registrations(h) ==
    (IF addressMap /\ h = SCOPE_POINTER THEN {<<GcCb, 0>>} ELSE {})
    \cup {<<ViewCb(i), views[i].at>> : i \in {k \in 1..Len(views) : h \in SetOfSeq(views[k].deps)}}
    \cup {<<cb, Since(cb, h)>> : cb \in {c \in UserCbs : Since(c, h) > 0}}

RECURSIVE ByTime(_)
ByTime(S) ==
    IF S = {} THEN <<>>
    ELSE LET m == CHOOSE x \in S : \A y \in S : x[2] <= y[2]
         IN <<m[1]>> \o ByTime(S \ {m})

\* the callbacks registered on h, in the order of their registration
RegisteredOrder(h) == ByTime(Registrations(h))

\* the callbacks a log shows invoked for h, in the order of the invocations
RECURSIVE CallSeq(_, _)
CallSeq(log, h) ==
    IF log = <<>> THEN <<>>
    ELSE IF Head(log).k = "call" /\ Head(log).p = h
         THEN <<Head(log).cb>> \o CallSeq(Tail(log), h)
         ELSE CallSeq(Tail(log), h)

\* a sequence without the repetitions of its elements
RECURSIVE Firsts(_, _)
Firsts(s, seen) ==
    IF s = <<>> THEN <<>>
    ELSE IF Head(s) \in seen THEN Firsts(Tail(s), seen)
    ELSE <<Head(s)>> \o Firsts(Tail(s), seen \cup {Head(s)})

IsPrefix(a, b) == Len(a) <= Len(b) /\ SubSeq(b, 1, Len(a)) = a

C19_AutoAddressesIncrease ==
    caller # "index" =>
        \A p \in Pointers : \A q \in Pointers : p < q => ptrAddr[p] < ptrAddr[q]

\* C20: deallocate(p) changes only p's own state: every other pointer q, also
\* one that carries p's address, keeps its stored value and the address-index
\* entry that refers to it.
C20_DeallocateOnlyOwn ==
    [][last'.op = "deallocate" =>
          \A q \in Pointers \ {last'.p} :
              /\ Has(MEMORY, q) => (Has(MEMORY', q) /\ MEMORY'[q] = MEMORY[q])
              /\ \A a \in DOMAIN ADDRESSES :
                     ADDRESSES[a] = q => (Has(ADDRESSES', a) /\ ADDRESSES'[a] = q)]_vars

\* the value of the latest write to the pointer of event i that precedes it in
\* the log
StoredBefore(log, i) ==
    LET ws == {j \in 1..(i - 1) : log[j].k = "write" /\ log[j].p = log[i].p}
    IN log[CHOOSE m \in ws : \A x \in ws : x <= m].v

====
